---- MODULE Spec2Model ----
(***************************************************************************)
(* Model of the logging-usage checker (src/main.rs): a single pass that    *)
(* walks the tree below the current directory, matches the forbidden       *)
(* pattern \blog::(info|warn|debug|trace)\b in every *.rs file outside the *)
(* allowed module, maps every match to a line and a column range, and      *)
(* prints a report whose exit status tells whether anything was found.     *)
(*                                                                         *)
(* Strings are sequences of bytes, a byte is a number in 0..255; the        *)
(* string a literal stands for is given in the comment before it. Offsets  *)
(* are 0-based byte offsets, as in the source.                             *)
(***************************************************************************)
EXTENDS Integers, Sequences, FiniteSets, TLC

-----------------------------------------------------------------------------
(* Bytes and strings *)

NL == 10

\* Texts are UTF-8: a character is one ASCII byte, or a lead byte followed by
\* one to three continuation bytes (0x80..0xBF).
IsContinuationByte(b) == b >= 128 /\ b <= 191

\* Number of bytes of the character that starts with lead byte b, 0 when b
\* cannot start a character.
CharLen(b) ==
    IF b < 128 THEN 1
    ELSE IF b >= 194 /\ b <= 223 THEN 2
    ELSE IF b >= 224 /\ b <= 239 THEN 3
    ELSE IF b >= 240 /\ b <= 244 THEN 4
    ELSE 0

\* std::str::from_utf8(bytes).is_ok()
RECURSIVE ValidUtf8(_)
ValidUtf8(bytes) ==
    IF bytes = <<>> THEN TRUE
    ELSE LET b == bytes[1]
             n == CharLen(b)
         IN  /\ n # 0
             /\ Len(bytes) >= n
             /\ \A k \in 2..n : IsContinuationByte(bytes[k])
             /\ b = 224 => bytes[2] >= 160
             /\ b = 237 => bytes[2] <= 159
             /\ b = 240 => bytes[2] >= 144
             /\ b = 244 => bytes[2] <= 143
             /\ ValidUtf8(SubSeq(bytes, n + 1, Len(bytes)))

\* str::is_char_boundary
IsCharBoundary(text, i) ==
    \/ i = 0
    \/ i = Len(text)
    \/ i > 0 /\ i < Len(text) /\ ~IsContinuationByte(text[i + 1])

\* The character that holds the byte at offset i (0 <= i < Len(text)).
CharAt(text, i) ==
    LET first == CHOOSE j \in 0..i :
                     /\ IsCharBoundary(text, j)
                     /\ \A k \in (j + 1)..i : ~IsCharBoundary(text, k)
        last == CHOOSE j \in (i + 1)..Len(text) :
                    /\ IsCharBoundary(text, j)
                    /\ \A k \in (i + 1)..(j - 1) : ~IsCharBoundary(text, k)
    IN  SubSeq(text, first + 1, last)

\* The code point a character encodes.
CodePoint(c) ==
    IF Len(c) = 1 THEN c[1]
    ELSE IF Len(c) = 2 THEN (c[1] - 192) * 64 + (c[2] - 128)
    ELSE IF Len(c) = 3
    THEN (c[1] - 224) * 4096 + (c[2] - 128) * 64 + (c[3] - 128)
    ELSE (c[1] - 240) * 262144 + (c[2] - 128) * 4096 + (c[3] - 128) * 64
         + (c[4] - 128)

\* The regex crate's \b is Unicode-aware: a word character is any \w, that is
\* Alphabetic, Mark, Decimal_Number, Connector_Punctuation or Join_Control.
\* The ranges of these code points (Unicode 16.0), in ascending order:
WordRanges ==
    << <<48,57>>, <<65,90>>, <<95,95>>, <<97,122>>, <<170,170>>, <<181,181>>,
       <<186,186>>, <<192,214>>, <<216,246>>, <<248,705>>, <<710,721>>,
       <<736,740>>, <<748,748>>, <<750,750>>, <<768,884>>, <<886,887>>,
       <<890,893>>, <<895,895>>, <<902,902>>, <<904,906>>, <<908,908>>,
       <<910,929>>, <<931,1013>>, <<1015,1153>>, <<1155,1327>>, <<1329,1366>>,
       <<1369,1369>>, <<1376,1416>>, <<1425,1469>>, <<1471,1471>>,
       <<1473,1474>>, <<1476,1477>>, <<1479,1479>>, <<1488,1514>>,
       <<1519,1522>>, <<1552,1562>>, <<1568,1641>>, <<1646,1747>>,
       <<1749,1756>>, <<1759,1768>>, <<1770,1788>>, <<1791,1791>>,
       <<1808,1866>>, <<1869,1969>>, <<1984,2037>>, <<2042,2042>>,
       <<2045,2045>>, <<2048,2093>>, <<2112,2139>>, <<2144,2154>>,
       <<2160,2183>>, <<2185,2190>>, <<2199,2273>>, <<2275,2403>>,
       <<2406,2415>>, <<2417,2435>>, <<2437,2444>>, <<2447,2448>>,
       <<2451,2472>>, <<2474,2480>>, <<2482,2482>>, <<2486,2489>>,
       <<2492,2500>>, <<2503,2504>>, <<2507,2510>>, <<2519,2519>>,
       <<2524,2525>>, <<2527,2531>>, <<2534,2545>>, <<2556,2556>>,
       <<2558,2558>>, <<2561,2563>>, <<2565,2570>>, <<2575,2576>>,
       <<2579,2600>>, <<2602,2608>>, <<2610,2611>>, <<2613,2614>>,
       <<2616,2617>>, <<2620,2620>>, <<2622,2626>>, <<2631,2632>>,
       <<2635,2637>>, <<2641,2641>>, <<2649,2652>>, <<2654,2654>>,
       <<2662,2677>>, <<2689,2691>>, <<2693,2701>>, <<2703,2705>>,
       <<2707,2728>>, <<2730,2736>>, <<2738,2739>>, <<2741,2745>>,
       <<2748,2757>>, <<2759,2761>>, <<2763,2765>>, <<2768,2768>>,
       <<2784,2787>>, <<2790,2799>>, <<2809,2815>>, <<2817,2819>>,
       <<2821,2828>>, <<2831,2832>>, <<2835,2856>>, <<2858,2864>>,
       <<2866,2867>>, <<2869,2873>>, <<2876,2884>>, <<2887,2888>>,
       <<2891,2893>>, <<2901,2903>>, <<2908,2909>>, <<2911,2915>>,
       <<2918,2927>>, <<2929,2929>>, <<2946,2947>>, <<2949,2954>>,
       <<2958,2960>>, <<2962,2965>>, <<2969,2970>>, <<2972,2972>>,
       <<2974,2975>>, <<2979,2980>>, <<2984,2986>>, <<2990,3001>>,
       <<3006,3010>>, <<3014,3016>>, <<3018,3021>>, <<3024,3024>>,
       <<3031,3031>>, <<3046,3055>>, <<3072,3084>>, <<3086,3088>>,
       <<3090,3112>>, <<3114,3129>>, <<3132,3140>>, <<3142,3144>>,
       <<3146,3149>>, <<3157,3158>>, <<3160,3162>>, <<3165,3165>>,
       <<3168,3171>>, <<3174,3183>>, <<3200,3203>>, <<3205,3212>>,
       <<3214,3216>>, <<3218,3240>>, <<3242,3251>>, <<3253,3257>>,
       <<3260,3268>>, <<3270,3272>>, <<3274,3277>>, <<3285,3286>>,
       <<3293,3294>>, <<3296,3299>>, <<3302,3311>>, <<3313,3315>>,
       <<3328,3340>>, <<3342,3344>>, <<3346,3396>>, <<3398,3400>>,
       <<3402,3406>>, <<3412,3415>>, <<3423,3427>>, <<3430,3439>>,
       <<3450,3455>>, <<3457,3459>>, <<3461,3478>>, <<3482,3505>>,
       <<3507,3515>>, <<3517,3517>>, <<3520,3526>>, <<3530,3530>>,
       <<3535,3540>>, <<3542,3542>>, <<3544,3551>>, <<3558,3567>>,
       <<3570,3571>>, <<3585,3642>>, <<3648,3662>>, <<3664,3673>>,
       <<3713,3714>>, <<3716,3716>>, <<3718,3722>>, <<3724,3747>>,
       <<3749,3749>>, <<3751,3773>>, <<3776,3780>>, <<3782,3782>>,
       <<3784,3790>>, <<3792,3801>>, <<3804,3807>>, <<3840,3840>>,
       <<3864,3865>>, <<3872,3881>>, <<3893,3893>>, <<3895,3895>>,
       <<3897,3897>>, <<3902,3911>>, <<3913,3948>>, <<3953,3972>>,
       <<3974,3991>>, <<3993,4028>>, <<4038,4038>>, <<4096,4169>>,
       <<4176,4253>>, <<4256,4293>>, <<4295,4295>>, <<4301,4301>>,
       <<4304,4346>>, <<4348,4680>>, <<4682,4685>>, <<4688,4694>>,
       <<4696,4696>>, <<4698,4701>>, <<4704,4744>>, <<4746,4749>>,
       <<4752,4784>>, <<4786,4789>>, <<4792,4798>>, <<4800,4800>>,
       <<4802,4805>>, <<4808,4822>>, <<4824,4880>>, <<4882,4885>>,
       <<4888,4954>>, <<4957,4959>>, <<4992,5007>>, <<5024,5109>>,
       <<5112,5117>>, <<5121,5740>>, <<5743,5759>>, <<5761,5786>>,
       <<5792,5866>>, <<5870,5880>>, <<5888,5909>>, <<5919,5940>>,
       <<5952,5971>>, <<5984,5996>>, <<5998,6000>>, <<6002,6003>>,
       <<6016,6099>>, <<6103,6103>>, <<6108,6109>>, <<6112,6121>>,
       <<6155,6157>>, <<6159,6169>>, <<6176,6264>>, <<6272,6314>>,
       <<6320,6389>>, <<6400,6430>>, <<6432,6443>>, <<6448,6459>>,
       <<6470,6509>>, <<6512,6516>>, <<6528,6571>>, <<6576,6601>>,
       <<6608,6617>>, <<6656,6683>>, <<6688,6750>>, <<6752,6780>>,
       <<6783,6793>>, <<6800,6809>>, <<6823,6823>>, <<6832,6862>>,
       <<6912,6988>>, <<6992,7001>>, <<7019,7027>>, <<7040,7155>>,
       <<7168,7223>>, <<7232,7241>>, <<7245,7293>>, <<7296,7306>>,
       <<7312,7354>>, <<7357,7359>>, <<7376,7378>>, <<7380,7418>>,
       <<7424,7957>>, <<7960,7965>>, <<7968,8005>>, <<8008,8013>>,
       <<8016,8023>>, <<8025,8025>>, <<8027,8027>>, <<8029,8029>>,
       <<8031,8061>>, <<8064,8116>>, <<8118,8124>>, <<8126,8126>>,
       <<8130,8132>>, <<8134,8140>>, <<8144,8147>>, <<8150,8155>>,
       <<8160,8172>>, <<8178,8180>>, <<8182,8188>>, <<8204,8205>>,
       <<8255,8256>>, <<8276,8276>>, <<8305,8305>>, <<8319,8319>>,
       <<8336,8348>>, <<8400,8432>>, <<8450,8450>>, <<8455,8455>>,
       <<8458,8467>>, <<8469,8469>>, <<8473,8477>>, <<8484,8484>>,
       <<8486,8486>>, <<8488,8488>>, <<8490,8493>>, <<8495,8505>>,
       <<8508,8511>>, <<8517,8521>>, <<8526,8526>>, <<8544,8584>>,
       <<9398,9449>>, <<11264,11492>>, <<11499,11507>>, <<11520,11557>>,
       <<11559,11559>>, <<11565,11565>>, <<11568,11623>>, <<11631,11631>>,
       <<11647,11670>>, <<11680,11686>>, <<11688,11694>>, <<11696,11702>>,
       <<11704,11710>>, <<11712,11718>>, <<11720,11726>>, <<11728,11734>>,
       <<11736,11742>>, <<11744,11775>>, <<11823,11823>>, <<12293,12295>>,
       <<12321,12335>>, <<12337,12341>>, <<12344,12348>>, <<12353,12438>>,
       <<12441,12442>>, <<12445,12447>>, <<12449,12538>>, <<12540,12543>>,
       <<12549,12591>>, <<12593,12686>>, <<12704,12735>>, <<12784,12799>>,
       <<13312,19903>>, <<19968,42124>>, <<42192,42237>>, <<42240,42508>>,
       <<42512,42539>>, <<42560,42610>>, <<42612,42621>>, <<42623,42737>>,
       <<42775,42783>>, <<42786,42888>>, <<42891,42957>>, <<42960,42961>>,
       <<42963,42963>>, <<42965,42972>>, <<42994,43047>>, <<43052,43052>>,
       <<43072,43123>>, <<43136,43205>>, <<43216,43225>>, <<43232,43255>>,
       <<43259,43259>>, <<43261,43309>>, <<43312,43347>>, <<43360,43388>>,
       <<43392,43456>>, <<43471,43481>>, <<43488,43518>>, <<43520,43574>>,
       <<43584,43597>>, <<43600,43609>>, <<43616,43638>>, <<43642,43714>>,
       <<43739,43741>>, <<43744,43759>>, <<43762,43766>>, <<43777,43782>>,
       <<43785,43790>>, <<43793,43798>>, <<43808,43814>>, <<43816,43822>>,
       <<43824,43866>>, <<43868,43881>>, <<43888,44010>>, <<44012,44013>>,
       <<44016,44025>>, <<44032,55203>>, <<55216,55238>>, <<55243,55291>>,
       <<63744,64109>>, <<64112,64217>>, <<64256,64262>>, <<64275,64279>>,
       <<64285,64296>>, <<64298,64310>>, <<64312,64316>>, <<64318,64318>>,
       <<64320,64321>>, <<64323,64324>>, <<64326,64433>>, <<64467,64829>>,
       <<64848,64911>>, <<64914,64967>>, <<65008,65019>>, <<65024,65039>>,
       <<65056,65071>>, <<65075,65076>>, <<65101,65103>>, <<65136,65140>>,
       <<65142,65276>>, <<65296,65305>>, <<65313,65338>>, <<65343,65343>>,
       <<65345,65370>>, <<65382,65470>>, <<65474,65479>>, <<65482,65487>>,
       <<65490,65495>>, <<65498,65500>>, <<65536,65547>>, <<65549,65574>>,
       <<65576,65594>>, <<65596,65597>>, <<65599,65613>>, <<65616,65629>>,
       <<65664,65786>>, <<65856,65908>>, <<66045,66045>>, <<66176,66204>>,
       <<66208,66256>>, <<66272,66272>>, <<66304,66335>>, <<66349,66378>>,
       <<66384,66426>>, <<66432,66461>>, <<66464,66499>>, <<66504,66511>>,
       <<66513,66517>>, <<66560,66717>>, <<66720,66729>>, <<66736,66771>>,
       <<66776,66811>>, <<66816,66855>>, <<66864,66915>>, <<66928,66938>>,
       <<66940,66954>>, <<66956,66962>>, <<66964,66965>>, <<66967,66977>>,
       <<66979,66993>>, <<66995,67001>>, <<67003,67004>>, <<67008,67059>>,
       <<67072,67382>>, <<67392,67413>>, <<67424,67431>>, <<67456,67461>>,
       <<67463,67504>>, <<67506,67514>>, <<67584,67589>>, <<67592,67592>>,
       <<67594,67637>>, <<67639,67640>>, <<67644,67644>>, <<67647,67669>>,
       <<67680,67702>>, <<67712,67742>>, <<67808,67826>>, <<67828,67829>>,
       <<67840,67861>>, <<67872,67897>>, <<67968,68023>>, <<68030,68031>>,
       <<68096,68099>>, <<68101,68102>>, <<68108,68115>>, <<68117,68119>>,
       <<68121,68149>>, <<68152,68154>>, <<68159,68159>>, <<68192,68220>>,
       <<68224,68252>>, <<68288,68295>>, <<68297,68326>>, <<68352,68405>>,
       <<68416,68437>>, <<68448,68466>>, <<68480,68497>>, <<68608,68680>>,
       <<68736,68786>>, <<68800,68850>>, <<68864,68903>>, <<68912,68921>>,
       <<68928,68965>>, <<68969,68973>>, <<68975,68997>>, <<69248,69289>>,
       <<69291,69292>>, <<69296,69297>>, <<69314,69316>>, <<69372,69404>>,
       <<69415,69415>>, <<69424,69456>>, <<69488,69509>>, <<69552,69572>>,
       <<69600,69622>>, <<69632,69702>>, <<69734,69749>>, <<69759,69818>>,
       <<69826,69826>>, <<69840,69864>>, <<69872,69881>>, <<69888,69940>>,
       <<69942,69951>>, <<69956,69959>>, <<69968,70003>>, <<70006,70006>>,
       <<70016,70084>>, <<70089,70092>>, <<70094,70106>>, <<70108,70108>>,
       <<70144,70161>>, <<70163,70199>>, <<70206,70209>>, <<70272,70278>>,
       <<70280,70280>>, <<70282,70285>>, <<70287,70301>>, <<70303,70312>>,
       <<70320,70378>>, <<70384,70393>>, <<70400,70403>>, <<70405,70412>>,
       <<70415,70416>>, <<70419,70440>>, <<70442,70448>>, <<70450,70451>>,
       <<70453,70457>>, <<70459,70468>>, <<70471,70472>>, <<70475,70477>>,
       <<70480,70480>>, <<70487,70487>>, <<70493,70499>>, <<70502,70508>>,
       <<70512,70516>>, <<70528,70537>>, <<70539,70539>>, <<70542,70542>>,
       <<70544,70581>>, <<70583,70592>>, <<70594,70594>>, <<70597,70597>>,
       <<70599,70602>>, <<70604,70611>>, <<70625,70626>>, <<70656,70730>>,
       <<70736,70745>>, <<70750,70753>>, <<70784,70853>>, <<70855,70855>>,
       <<70864,70873>>, <<71040,71093>>, <<71096,71104>>, <<71128,71133>>,
       <<71168,71232>>, <<71236,71236>>, <<71248,71257>>, <<71296,71352>>,
       <<71360,71369>>, <<71376,71395>>, <<71424,71450>>, <<71453,71467>>,
       <<71472,71481>>, <<71488,71494>>, <<71680,71738>>, <<71840,71913>>,
       <<71935,71942>>, <<71945,71945>>, <<71948,71955>>, <<71957,71958>>,
       <<71960,71989>>, <<71991,71992>>, <<71995,72003>>, <<72016,72025>>,
       <<72096,72103>>, <<72106,72151>>, <<72154,72161>>, <<72163,72164>>,
       <<72192,72254>>, <<72263,72263>>, <<72272,72345>>, <<72349,72349>>,
       <<72368,72440>>, <<72640,72672>>, <<72688,72697>>, <<72704,72712>>,
       <<72714,72758>>, <<72760,72768>>, <<72784,72793>>, <<72818,72847>>,
       <<72850,72871>>, <<72873,72886>>, <<72960,72966>>, <<72968,72969>>,
       <<72971,73014>>, <<73018,73018>>, <<73020,73021>>, <<73023,73031>>,
       <<73040,73049>>, <<73056,73061>>, <<73063,73064>>, <<73066,73102>>,
       <<73104,73105>>, <<73107,73112>>, <<73120,73129>>, <<73440,73462>>,
       <<73472,73488>>, <<73490,73530>>, <<73534,73538>>, <<73552,73562>>,
       <<73648,73648>>, <<73728,74649>>, <<74752,74862>>, <<74880,75075>>,
       <<77712,77808>>, <<77824,78895>>, <<78912,78933>>, <<78944,82938>>,
       <<82944,83526>>, <<90368,90425>>, <<92160,92728>>, <<92736,92766>>,
       <<92768,92777>>, <<92784,92862>>, <<92864,92873>>, <<92880,92909>>,
       <<92912,92916>>, <<92928,92982>>, <<92992,92995>>, <<93008,93017>>,
       <<93027,93047>>, <<93053,93071>>, <<93504,93548>>, <<93552,93561>>,
       <<93760,93823>>, <<93952,94026>>, <<94031,94087>>, <<94095,94111>>,
       <<94176,94177>>, <<94179,94180>>, <<94192,94193>>, <<94208,100343>>,
       <<100352,101589>>, <<101631,101640>>, <<110576,110579>>,
       <<110581,110587>>, <<110589,110590>>, <<110592,110882>>,
       <<110898,110898>>, <<110928,110930>>, <<110933,110933>>,
       <<110948,110951>>, <<110960,111355>>, <<113664,113770>>,
       <<113776,113788>>, <<113792,113800>>, <<113808,113817>>,
       <<113821,113822>>, <<118000,118009>>, <<118528,118573>>,
       <<118576,118598>>, <<119141,119145>>, <<119149,119154>>,
       <<119163,119170>>, <<119173,119179>>, <<119210,119213>>,
       <<119362,119364>>, <<119808,119892>>, <<119894,119964>>,
       <<119966,119967>>, <<119970,119970>>, <<119973,119974>>,
       <<119977,119980>>, <<119982,119993>>, <<119995,119995>>,
       <<119997,120003>>, <<120005,120069>>, <<120071,120074>>,
       <<120077,120084>>, <<120086,120092>>, <<120094,120121>>,
       <<120123,120126>>, <<120128,120132>>, <<120134,120134>>,
       <<120138,120144>>, <<120146,120485>>, <<120488,120512>>,
       <<120514,120538>>, <<120540,120570>>, <<120572,120596>>,
       <<120598,120628>>, <<120630,120654>>, <<120656,120686>>,
       <<120688,120712>>, <<120714,120744>>, <<120746,120770>>,
       <<120772,120779>>, <<120782,120831>>, <<121344,121398>>,
       <<121403,121452>>, <<121461,121461>>, <<121476,121476>>,
       <<121499,121503>>, <<121505,121519>>, <<122624,122654>>,
       <<122661,122666>>, <<122880,122886>>, <<122888,122904>>,
       <<122907,122913>>, <<122915,122916>>, <<122918,122922>>,
       <<122928,122989>>, <<123023,123023>>, <<123136,123180>>,
       <<123184,123197>>, <<123200,123209>>, <<123214,123214>>,
       <<123536,123566>>, <<123584,123641>>, <<124112,124153>>,
       <<124368,124410>>, <<124896,124902>>, <<124904,124907>>,
       <<124909,124910>>, <<124912,124926>>, <<124928,125124>>,
       <<125136,125142>>, <<125184,125259>>, <<125264,125273>>,
       <<126464,126467>>, <<126469,126495>>, <<126497,126498>>,
       <<126500,126500>>, <<126503,126503>>, <<126505,126514>>,
       <<126516,126519>>, <<126521,126521>>, <<126523,126523>>,
       <<126530,126530>>, <<126535,126535>>, <<126537,126537>>,
       <<126539,126539>>, <<126541,126543>>, <<126545,126546>>,
       <<126548,126548>>, <<126551,126551>>, <<126553,126553>>,
       <<126555,126555>>, <<126557,126557>>, <<126559,126559>>,
       <<126561,126562>>, <<126564,126564>>, <<126567,126570>>,
       <<126572,126578>>, <<126580,126583>>, <<126585,126588>>,
       <<126590,126590>>, <<126592,126601>>, <<126603,126619>>,
       <<126625,126627>>, <<126629,126633>>, <<126635,126651>>,
       <<127280,127305>>, <<127312,127337>>, <<127344,127369>>,
       <<130032,130041>>, <<131072,173791>>, <<173824,177977>>,
       <<177984,178205>>, <<178208,183969>>, <<183984,191456>>,
       <<191472,192093>>, <<194560,195101>>, <<196608,201546>>,
       <<201552,205743>>, <<917760,917999>> >>

\* Among the ASCII characters the word characters are [0-9A-Za-z_], the first
\* four ranges.
IsWordChar(c) ==
    LET cp == CodePoint(c)
    IN  IF cp < 128
        THEN \E k \in 1..4 : WordRanges[k][1] <= cp /\ cp <= WordRanges[k][2]
        ELSE \E k \in 5..Len(WordRanges) :
                 WordRanges[k][1] <= cp /\ cp <= WordRanges[k][2]

\* Two-byte characters used in the texts below: U+00E9 (a letter) and U+00D7
\* (the multiplication sign, no word character).
E_ACUTE == <<195, 169>>
TIMES == <<195, 151>>

\* text[a..b) with 0-based byte offsets (Rust's &text[a..b]).
Slice(text, a, b) == SubSeq(text, a + 1, b)

\* str::contains / str::ends_with
Contains(s, sub) ==
    \E i \in 0..(Len(s) - Len(sub)) : Slice(s, i, i + Len(sub)) = sub

EndsWith(s, sub) ==
    /\ Len(sub) <= Len(s)
    /\ Slice(s, Len(s) - Len(sub), Len(s)) = sub

\* str::find('\n') and str::rfind('\n'): offset of the first / last newline,
\* -1 for None.
FindNewline(s) ==
    IF \E i \in 1..Len(s) : s[i] = NL
    THEN (CHOOSE i \in 1..Len(s) : s[i] = NL /\ \A j \in 1..(i - 1) : s[j] # NL) - 1
    ELSE -1

RFindNewline(s) ==
    IF \E i \in 1..Len(s) : s[i] = NL
    THEN (CHOOSE i \in 1..Len(s) : s[i] = NL /\ \A j \in (i + 1)..Len(s) : s[j] # NL) - 1
    ELSE -1

\* before.matches('\n').count()
CountNewlines(s) == Cardinality({ i \in 1..Len(s) : s[i] = NL })

-----------------------------------------------------------------------------
(* Paths: a path is the sequence of its components below "/" *)

\* "src/utils/logging"
SEGMENT == <<115,114,99,47,117,116,105,108,115,47,108,111,103,103,105,110,103>>
\* "src/utils/logging.rs"
SEGMENT_RS == SEGMENT \o <<46,114,115>>

RECURSIVE JoinPath(_)
JoinPath(p) ==
    IF p = <<>> THEN <<>>
    ELSE JoinPath(SubSeq(p, 1, Len(p) - 1)) \o <<47>> \o p[Len(p)]

\* Path::to_str: None when the path is not valid UTF-8.
ToStr(p) ==
    LET bytes == JoinPath(p)
    IN  IF ValidUtf8(bytes)
        THEN [some |-> TRUE, s |-> bytes]
        ELSE [some |-> FALSE, s |-> <<>>]

is_allowed_path_suffix_only(path) ==
    LET s == ToStr(path)
    IN  s.some /\ EndsWith(s.s, SEGMENT_RS)

is_allowed_path(path) ==
    LET s == ToStr(path)
    IN  IF s.some
        THEN Contains(s.s, SEGMENT) \/ EndsWith(s.s, SEGMENT_RS)
        ELSE FALSE

\* Path::extension of the last component: the bytes after the last dot (46),
\* None when there is no dot or when the only dot is the first byte.
Extension(name) ==
    LET dots == { i \in 1..Len(name) : name[i] = 46 }
    IN  IF dots = {} THEN [some |-> FALSE, ext |-> <<>>]
        ELSE LET d == CHOOSE i \in dots : \A j \in dots : j <= i
             IN  IF d = 1 THEN [some |-> FALSE, ext |-> <<>>]
                 ELSE [some |-> TRUE, ext |-> SubSeq(name, d + 1, Len(name))]

FileName(path) == path[Len(path)]

HasRsExtension(path) ==
    LET e == Extension(FileName(path))
    IN  IF e.some THEN e.ext = <<114,115>> ELSE FALSE

\* "target"
TARGET == <<116,97,114,103,101,116>>
\* ".git"
DOT_GIT == <<46,103,105,116>>
\* "node_modules"
NODE_MODULES == <<110,111,100,101,95,109,111,100,117,108,101,115>>

\* The filter_entry predicate: FALSE prunes the entry (and, for a directory,
\* everything below it).
KeepEntryNoGit(path) ==
    LET name == FileName(path)
    IN  ~(name = TARGET \/ name = NODE_MODULES)

KeepEntry(path) ==
    LET name == FileName(path)
    IN  ~(name = TARGET \/ name = DOT_GIT \/ name = NODE_MODULES)

\* Ord for byte strings and for paths (component by component).
RECURSIVE BytesLess(_, _)
BytesLess(a, b) ==
    IF b = <<>> THEN FALSE
    ELSE IF a = <<>> THEN TRUE
    ELSE IF a[1] # b[1] THEN a[1] < b[1]
    ELSE BytesLess(Tail(a), Tail(b))

RECURSIVE PathLess(_, _)
PathLess(p, q) ==
    IF q = <<>> THEN FALSE
    ELSE IF p = <<>> THEN TRUE
    ELSE IF p[1] # q[1] THEN BytesLess(p[1], q[1])
    ELSE PathLess(Tail(p), Tail(q))

-----------------------------------------------------------------------------
(* The pattern \blog::(info|warn|debug|trace)\b *)

\* "log::"
LOG_PREFIX == <<108,111,103,58,58>>
\* info, warn, debug, trace
LEVELS == << <<105,110,102,111>>, <<119,97,114,110>>,
             <<100,101,98,117,103>>, <<116,114,97,99,101>> >>

\* The byte at offset i exists and belongs to a word character.
IsWordAt(text, i) == i >= 0 /\ i < Len(text) /\ IsWordChar(CharAt(text, i))

\* \b at offset i: exactly one of the characters on either side is a word
\* character.
WordBoundary(text, i) == IsWordAt(text, i - 1) # IsWordAt(text, i)

LiteralAt(text, i, lit) ==
    /\ i + Len(lit) <= Len(text)
    /\ Slice(text, i, i + Len(lit)) = lit

\* End offset of the match that starts at offset i, -1 when there is none.
MatchEnd(text, i) ==
    LET ok(k) == /\ LiteralAt(text, i + Len(LOG_PREFIX), LEVELS[k])
                 /\ WordBoundary(text, i + Len(LOG_PREFIX) + Len(LEVELS[k]))
    IN  IF LiteralAt(text, i, LOG_PREFIX) /\ WordBoundary(text, i)
           /\ \E k \in 1..Len(LEVELS) : ok(k)
        THEN LET k == CHOOSE k \in 1..Len(LEVELS) :
                          ok(k) /\ \A j \in 1..(k - 1) : ~ok(j)
             IN  i + Len(LOG_PREFIX) + Len(LEVELS[k])
        ELSE -1

\* Regex::find_iter from offset pos: the leftmost match at or after pos, then
\* the matches after its end; a sequence of [start, end] records.
RECURSIVE FindIter(_, _)
FindIter(text, pos) ==
    LET starts == { i \in pos..Len(text) : MatchEnd(text, i) # -1 }
    IN  IF starts = {} THEN <<>>
        ELSE LET s == CHOOSE i \in starts : \A j \in starts : i <= j
                 e == MatchEnd(text, s)
             IN  <<[start |-> s, end |-> e]>> \o FindIter(text, e)

-----------------------------------------------------------------------------
(* Position mapping (the body of the loop over the matches) *)

calc_col_in_line_absolute(line, byte_index_in_file, line_start_in_file) ==
    byte_index_in_file

\* usize::saturating_sub
calc_col_in_line(line, byte_index_in_file, line_start_in_file) ==
    IF byte_index_in_file >= line_start_in_file
    THEN byte_index_in_file - line_start_in_file
    ELSE 0

LineNoZeroBased(before) == CountNewlines(before)

LineNo(before) == CountNewlines(before) + 1

LineStartIndex(before) ==
    LET p == RFindNewline(before)
    IN  IF p # -1 THEN p + 1 ELSE 0

LineEndIndex(text, line_start_index) ==
    LET p == FindNewline(Slice(text, line_start_index, Len(text)))
    IN  IF p # -1 THEN line_start_index + p ELSE Len(text)

MakeViolation(path, text, mat) ==
    LET before == Slice(text, 0, mat.start)
        line_no == LineNo(before)
        line_start_index == LineStartIndex(before)
        line_end_index == LineEndIndex(text, line_start_index)
        line_text == Slice(text, line_start_index, line_end_index)
    IN  [ file |-> path,
          line_no |-> line_no,
          col_start |-> calc_col_in_line(line_text, mat.start, line_start_index),
          col_end |-> calc_col_in_line(line_text, mat.end, line_start_index),
          line_text |-> line_text ]

\* The violations one file contributes, in match order.
ScanText(path, text) ==
    LET ms == FindIter(text, 0)
    IN  [ k \in 1..Len(ms) |-> MakeViolation(path, text, ms[k]) ]

-----------------------------------------------------------------------------
(* The environment: the current directory and the tree below it *)

MaxEntries == 4

\* "w"
W == <<119>>
\* "src"
SRC == <<115,114,99>>
\* "utils"
UTILS == <<117,116,105,108,115>>
\* "logging"
LOGGING == <<108,111,103,103,105,110,103>>
\* "logging.rs"
LOGGING_RS == <<108,111,103,103,105,110,103,46,114,115>>
\* "a.rs"
A_RS == <<97,46,114,115>>
\* "b.rs"
B_RS == <<98,46,114,115>>
\* "m.rs"
M_RS == <<109,46,114,115>>
\* "l.rs"
L_RS == <<108,46,114,115>>
\* "n.txt"
N_TXT == <<110,46,116,120,116>>
\* "logging", the byte 0xFF (not valid UTF-8), ".rs"
LOGGING_FF_RS == <<108,111,103,103,105,110,103,255,46,114,115>>

\* Candidate working directories: /w and /w/target.
Roots == { <<W>>, <<W, TARGET>> }

\* The entries a tree may contain, as paths relative to the working directory.
DirEntries ==
    { <<TARGET>>, <<DOT_GIT>>, <<NODE_MODULES>>,
      <<SRC>>, <<SRC, UTILS>>, <<SRC, UTILS, LOGGING>> }
FileEntries ==
    { <<A_RS>>, <<B_RS>>, <<N_TXT>>,
      <<TARGET, A_RS>>, <<DOT_GIT, A_RS>>, <<NODE_MODULES, A_RS>>,
      <<SRC, A_RS>>, <<SRC, UTILS, LOGGING_RS>>, <<SRC, UTILS, LOGGING_FF_RS>>,
      <<SRC, UTILS, LOGGING, M_RS>> }
SymlinkEntries == { <<L_RS>> }
Universe == DirEntries \cup FileEntries \cup SymlinkEntries

Parent(p) == SubSeq(p, 1, Len(p) - 1)

\* File contents: no match, one match on line 2, two matches on line 1 and a
\* third on line 2.
\* U+1C89 (a Cyrillic capital letter) then "log::info"
TextClean == <<225,178,137,108,111,103,58,58,105,110,102,111>>
\* "x\n log::debug("
TextOne == <<120, NL, 32,108,111,103,58,58,100,101,98,117,103,40>>
\* "log::info log::warn\n log::trace!"
TextThree == <<108,111,103,58,58,105,110,102,111, 32,
               108,111,103,58,58,119,97,114,110, NL,
               32,108,111,103,58,58,116,114,97,99,101,33>>

\* Attributes of an entry: a directory can be listed or not (read_dir fails),
\* a file can be read as text or not (read_to_string fails).
DirAttr(ok) == [kind |-> "dir", ok |-> ok, text |-> <<>>]
FileAttr(ok, text) == [kind |-> "file", ok |-> ok, text |-> text]
SymlinkAttr == [kind |-> "symlink", ok |-> TRUE, text |-> <<>>]

AttrChoices(r) ==
    IF r = <<SRC>> THEN { DirAttr(TRUE), DirAttr(FALSE) }
    ELSE IF r \in DirEntries THEN { DirAttr(TRUE) }
    ELSE IF r \in SymlinkEntries THEN { SymlinkAttr }
    ELSE IF r = <<A_RS>>
    THEN { FileAttr(TRUE, TextClean), FileAttr(TRUE, TextOne),
           FileAttr(TRUE, TextThree), FileAttr(FALSE, <<>>) }
    ELSE IF r \in { <<B_RS>>, <<SRC, A_RS>>, <<SRC, UTILS, LOGGING_RS>> }
    THEN { FileAttr(TRUE, TextThree), FileAttr(FALSE, <<>>) }
    ELSE { FileAttr(TRUE, TextThree) }

\* A tree has at most MaxEntries entries below its root; what lies below a
\* root that cannot be listed is never looked at, one entry stands for it.
Shapes(rootOk) ==
    { S \in SUBSET Universe :
        /\ Cardinality(S) <= (IF rootOk THEN MaxEntries ELSE 1)
        /\ \A r \in S : Len(r) > 1 => Parent(r) \in S }

RECURSIVE AttrMaps(_)
AttrMaps(S) ==
    IF S = {} THEN { <<>> }
    ELSE LET r == CHOOSE x \in S : TRUE
         IN  { m @@ (r :> a) : m \in AttrMaps(S \ {r}), a \in AttrChoices(r) }

\* The trees whose root is the directory root.
TreesOf(root, rootOk) ==
    UNION { { [ p \in {root} \cup { root \o r : r \in S } |->
                  IF p = root THEN DirAttr(rootOk)
                  ELSE attrs[SubSeq(p, Len(root) + 1, Len(p))] ] :
              attrs \in AttrMaps(S) } :
            S \in Shapes(rootOk) }

Trees(root) == TreesOf(root, TRUE) \cup TreesOf(root, FALSE)

Children(tree, dir) ==
    { p \in DOMAIN tree : Len(p) = Len(dir) + 1 /\ Parent(p) = dir }

-----------------------------------------------------------------------------
(* State *)

VARIABLES
    cwd,              \* result of std::env::current_dir(): [ok, path]
    fs,               \* the tree: path -> [kind, ok, text]
    pc,               \* "start", "walk", "done", "failed", "panicked"
    stack,            \* WalkDir's open directories: the entries not yet yielded
    violations,       \* Vec<Violation>
    files_scanned,    \* usize
    total_violations, \* violations.len() taken after the loop
    per_file_count,   \* BTreeMap<PathBuf, usize>
    out,              \* the lines written to stdout and stderr, in order
    status,           \* exit status of the process, -1 while it runs
    visited,          \* the entries that passed the filters, in order
    reads             \* the paths handed to fs::read_to_string, in order

vars == << cwd, fs, pc, stack, violations, files_scanned, total_violations,
           per_file_count, out, status, visited, reads >>

\* Exit statuses: Ok(()) from main, std::process::exit(1), Err from main
\* (ExitCode::FAILURE), and a panic.
ExitSuccess == 0
ExitViolationsOk == ExitSuccess
ExitViolations == 1
ExitFailure == 1
ExitPanic == 101
Running == -1

-----------------------------------------------------------------------------
(* Report *)

\* One printed line. stream is "stdout" or "stderr".
Line(stream, kind, file, n, line_no, text) ==
    [ stream |-> stream, kind |-> kind, file |-> file, n |-> n,
      line_no |-> line_no, text |-> text, files |-> 0 ]

StdOut(kind) == Line("stdout", kind, <<>>, 0, 0, <<>>)

\* *per_file_count.entry(file).or_default() += 1
BumpOverwrite(m, file) ==
    IF file \in DOMAIN m THEN [m EXCEPT ![file] = 1] ELSE m @@ (file :> 1)

Bump(m, file) ==
    IF file \in DOMAIN m THEN [m EXCEPT ![file] = @ + 1] ELSE m @@ (file :> 1)

\* for v in &violations { ... }
RECURSIVE CountPerFile(_, _)
CountPerFile(vs, m) ==
    IF vs = <<>> THEN m
    ELSE CountPerFile(Tail(vs), Bump(m, Head(vs).file))

\* Iteration order of the BTreeMap: ascending keys.
RECURSIVE SortedPaths(_)
SortedPaths(S) ==
    IF S = {} THEN <<>>
    ELSE LET least == CHOOSE p \in S : \A q \in S \ {p} : PathLess(p, q)
         IN  <<least>> \o SortedPaths(S \ {least})

\* The keys in the order in which the scan first met them.
RECURSIVE FirstSeenOrder(_, _)
FirstSeenOrder(vs, seen) ==
    IF vs = <<>> THEN <<>>
    ELSE IF Head(vs).file \in seen THEN FirstSeenOrder(Tail(vs), seen)
    ELSE <<Head(vs).file>> \o FirstSeenOrder(Tail(vs), seen \cup {Head(vs).file})

IterOrderUnsorted(m) == FirstSeenOrder(violations, {})

IterOrder(m) == SortedPaths(DOMAIN m)

\* &line[..col_start], &line[col_start..col_end], &line[col_end..] panic when
\* the range is out of bounds or reversed, or when an end of it is not on a
\* character boundary.
HighlightPanics(line, col_start, col_end) ==
    ~(/\ col_start <= col_end
      /\ col_end <= Len(line)
      /\ IsCharBoundary(line, col_start)
      /\ IsCharBoundary(line, col_end))

highlight_match(line, col_start, col_end) ==
    << Slice(line, 0, col_start), Slice(line, col_start, col_end),
       Slice(line, col_end, Len(line)) >>

TruncateThreshold == 200

\* The lines printed for one violation of file.
DetailLines(file, v) ==
    IF HighlightPanics(v.line_text, v.col_start, v.col_end)
    THEN << Line("stderr", "panic", file, 0, v.line_no, <<>>) >>
    ELSE << Line("stdout", "detail", file, 0, v.line_no,
                 highlight_match(v.line_text, v.col_start, v.col_end)) >>
         \o (IF Len(v.line_text) > TruncateThreshold
             THEN << StdOut("truncated") >> ELSE <<>>)

RECURSIVE FileDetails(_, _)
FileDetails(file, vs) ==
    IF vs = <<>> THEN <<>>
    ELSE (IF Head(vs).file = file THEN DetailLines(file, Head(vs)) ELSE <<>>)
         \o FileDetails(file, Tail(vs))

RECURSIVE SummaryRows(_, _)
SummaryRows(order, m) ==
    IF order = <<>> THEN <<>>
    ELSE << Line("stdout", "summary_row", Head(order), m[Head(order)], 0, <<>>) >>
         \o SummaryRows(Tail(order), m)

RECURSIVE DetailSections(_, _, _)
DetailSections(order, m, vs) ==
    IF order = <<>> THEN <<>>
    ELSE << Line("stdout", "file", Head(order), 0, 0, <<>>),
            Line("stdout", "file_count", Head(order), m[Head(order)], 0, <<>>) >>
         \o FileDetails(Head(order), vs)
         \o << StdOut("blank") >>
         \o DetailSections(Tail(order), m, vs)

Header(scanned) ==
    << StdOut("header"), Line("stdout", "scanned", <<>>, scanned, 0, <<>>) >>

\* Everything main prints after the summary when there are violations.
ViolationReport(vs, total, m) ==
    << Line("stdout", "found", <<>>, total, 0, <<>>), StdOut("blank"),
       StdOut("summary_title") >>
    \o SummaryRows(IterOrder(m), m)
    \o << StdOut("blank"), StdOut("details_title") >>
    \o DetailSections(IterOrder(m), m, vs)
    \o << StdOut("guidance"), StdOut("blank"),
          [ Line("stderr", "error_summary", <<>>, total, 0, <<>>)
              EXCEPT !.files = Cardinality(DOMAIN m) ] >>

\* A panic ends the output at the panic message.
UpToPanic(lines) ==
    IF \E i \in 1..Len(lines) : lines[i].kind = "panic"
    THEN SubSeq(lines, 1, CHOOSE i \in 1..Len(lines) :
                              /\ lines[i].kind = "panic"
                              /\ \A j \in 1..(i - 1) : lines[j].kind # "panic")
    ELSE lines

-----------------------------------------------------------------------------
(* Traversal *)

\* The stack after entry e has been taken from the innermost open directory and
\* the entries in pushed (the children of e, if e is a directory that is
\* entered) have been opened; exhausted directories are closed.
RECURSIVE CloseExhausted(_)
CloseExhausted(st) ==
    IF st # <<>> /\ st[Len(st)] = {} THEN CloseExhausted(SubSeq(st, 1, Len(st) - 1))
    ELSE st

Advance(st, e, pushed) ==
    CloseExhausted([st EXCEPT ![Len(st)] = @ \ {e}] \o << pushed >>)

\* The filter after filter_entry: a regular file with extension rs.
IsCandidate(tree, p) == tree[p].kind = "file" /\ HasRsExtension(p)


Idle ==
    /\ pc = "start"
    /\ stack = <<>>
    /\ violations = <<>>
    /\ files_scanned = 0
    /\ total_violations = 0
    /\ per_file_count = <<>>
    /\ out = <<>>
    /\ status = Running
    /\ visited = <<>>
    /\ reads = <<>>

Init ==
    /\ cwd \in {[ok |-> FALSE, path |-> <<>>]}
                 \cup { [ok |-> TRUE, path |-> r] : r \in Roots }
    /\ fs \in (IF cwd.ok THEN Trees(cwd.path) ELSE { <<>> })
    /\ Idle

\* std::env::current_dir()? fails: main returns the error.
StartFails ==
    /\ pc = "start"
    /\ ~cwd.ok
    /\ pc' = "failed"
    /\ out' = << Line("stderr", "fatal", <<>>, 0, 0, <<>>) >>
    /\ status' = ExitFailure
    /\ UNCHANGED << cwd, fs, stack, violations, files_scanned, total_violations,
                    per_file_count, visited, reads >>

\* WalkDir::new(&repo_root): the root is the first entry to be yielded.
Start ==
    /\ pc = "start"
    /\ cwd.ok
    /\ pc' = "walk"
    /\ stack' = << {cwd.path} >>
    /\ UNCHANGED << cwd, fs, violations, files_scanned, total_violations,
                    per_file_count, out, status, visited, reads >>

Walking(e) ==
    /\ pc = "walk"
    /\ stack # <<>>
    /\ e \in stack[Len(stack)]

\* filter_entry rejects the entry; a rejected directory is not entered.
VisitPruned(e) ==
    /\ Walking(e)
    /\ ~KeepEntry(e)
    /\ stack' = Advance(stack, e, {})
    /\ UNCHANGED << cwd, fs, pc, violations, files_scanned, total_violations,
                    per_file_count, out, status, visited, reads >>

\* A directory that is kept is entered; it is no regular file, so the loop
\* body does not run for it.
VisitDir(e) ==
    /\ Walking(e)
    /\ KeepEntry(e)
    /\ fs[e].kind = "dir"
    /\ fs[e].ok
    /\ stack' = Advance(stack, e, Children(fs, e))
    /\ UNCHANGED << cwd, fs, pc, violations, files_scanned, total_violations,
                    per_file_count, out, status, visited, reads >>

\* read_dir fails: the Err item is dropped by filter_map(|e| e.ok()).
VisitDirError(e) ==
    /\ Walking(e)
    /\ KeepEntry(e)
    /\ fs[e].kind = "dir"
    /\ ~fs[e].ok
    /\ stack' = Advance(stack, e, {})
    /\ UNCHANGED << cwd, fs, pc, violations, files_scanned, total_violations,
                    per_file_count, out, status, visited, reads >>

\* Neither a directory nor a regular file with extension rs.
VisitOther(e) ==
    /\ Walking(e)
    /\ KeepEntry(e)
    /\ fs[e].kind # "dir"
    /\ ~IsCandidate(fs, e)
    /\ stack' = Advance(stack, e, {})
    /\ UNCHANGED << cwd, fs, pc, violations, files_scanned, total_violations,
                    per_file_count, out, status, visited, reads >>

\* (mutation) the allowed location is skipped before it is counted.
VisitExemptUncounted(e) ==
    /\ Walking(e)
    /\ KeepEntry(e)
    /\ IsCandidate(fs, e)
    /\ is_allowed_path(e)
    /\ visited' = Append(visited, e)
    /\ stack' = Advance(stack, e, {})
    /\ UNCHANGED << cwd, fs, pc, violations, files_scanned, total_violations,
                    per_file_count, out, status, reads >>

\* Loop body, allowed location: counted, then skipped.
VisitExempt(e) ==
    /\ Walking(e)
    /\ KeepEntry(e)
    /\ IsCandidate(fs, e)
    /\ is_allowed_path(e)
    /\ files_scanned' = files_scanned + 1
    /\ visited' = Append(visited, e)
    /\ stack' = Advance(stack, e, {})
    /\ UNCHANGED << cwd, fs, pc, violations, total_violations, per_file_count,
                    out, status, reads >>

\* (mutation) a read error skips the file and the scan goes on.
VisitReadErrorSkips(e) ==
    /\ Walking(e)
    /\ KeepEntry(e)
    /\ IsCandidate(fs, e)
    /\ ~is_allowed_path(e)
    /\ ~fs[e].ok
    /\ files_scanned' = files_scanned + 1
    /\ visited' = Append(visited, e)
    /\ reads' = Append(reads, e)
    /\ stack' = Advance(stack, e, {})
    /\ UNCHANGED << cwd, fs, pc, violations, total_violations, per_file_count,
                    out, status >>

\* Loop body, read_to_string fails: main returns the error.
VisitReadError(e) ==
    /\ Walking(e)
    /\ KeepEntry(e)
    /\ IsCandidate(fs, e)
    /\ ~is_allowed_path(e)
    /\ ~fs[e].ok
    /\ files_scanned' = files_scanned + 1
    /\ visited' = Append(visited, e)
    /\ reads' = Append(reads, e)
    /\ stack' = Advance(stack, e, {})
    /\ pc' = "failed"
    /\ out' = Append(out, Line("stderr", "fatal", e, 0, 0, <<>>))
    /\ status' = ExitFailure
    /\ UNCHANGED << cwd, fs, violations, total_violations, per_file_count >>

\* Loop body, file read: one Violation per match, in match order.
VisitScan(e) ==
    /\ Walking(e)
    /\ KeepEntry(e)
    /\ IsCandidate(fs, e)
    /\ ~is_allowed_path(e)
    /\ fs[e].ok
    /\ files_scanned' = files_scanned + 1
    /\ visited' = Append(visited, e)
    /\ reads' = Append(reads, e)
    /\ violations' = violations \o ScanText(e, fs[e].text)
    /\ stack' = Advance(stack, e, {})
    /\ UNCHANGED << cwd, fs, pc, total_violations, per_file_count, out, status >>

\* The traversal is over and nothing was found.
ReportClean ==
    /\ pc = "walk"
    /\ stack = <<>>
    /\ Len(violations) = 0
    /\ total_violations' = Len(violations)
    /\ per_file_count' = CountPerFile(violations, <<>>)
    /\ out' = out \o Header(files_scanned) \o << StdOut("success") >>
    /\ pc' = "done"
    /\ status' = ExitSuccess
    /\ UNCHANGED << cwd, fs, stack, violations, files_scanned, visited, reads >>

\* The traversal is over and there are violations.
ReportViolations ==
    /\ pc = "walk"
    /\ stack = <<>>
    /\ Len(violations) # 0
    /\ LET total == Len(violations)
           m == CountPerFile(violations, <<>>)
           lines == Header(files_scanned) \o ViolationReport(violations, total, m)
           printed == UpToPanic(lines)
       IN  /\ total_violations' = total
           /\ per_file_count' = m
           /\ out' = out \o printed
           /\ pc' = IF printed = lines THEN "done" ELSE "panicked"
           /\ status' = IF printed = lines THEN ExitViolations ELSE ExitPanic
    /\ UNCHANGED << cwd, fs, stack, violations, files_scanned, visited, reads >>

Next ==
    \/ StartFails
    \/ Start
    \/ \E e \in DOMAIN fs : VisitPruned(e)
    \/ \E e \in DOMAIN fs : VisitDir(e)
    \/ \E e \in DOMAIN fs : VisitDirError(e)
    \/ \E e \in DOMAIN fs : VisitOther(e)
    \/ \E e \in DOMAIN fs : VisitExempt(e)
    \/ \E e \in DOMAIN fs : VisitReadError(e)
    \/ \E e \in DOMAIN fs : VisitScan(e)
    \/ ReportClean
    \/ ReportViolations

Spec == Init /\ [][Next]_vars

-----------------------------------------------------------------------------
(* A single source file with arbitrary contents *)

MaxFrags == 4

\* The pieces a text is built from: "log::info", "log::trace", a newline,
\* " ", "x\n", "A", U+00E9 and U+00D7.
Frags ==
    << LOG_PREFIX \o LEVELS[1], LOG_PREFIX \o LEVELS[4], <<NL>>, <<32>>,
       <<120, NL>>, <<65>>, E_ACUTE, TIMES >>

RECURSIVE Concat(_)
Concat(parts) ==
    IF parts = <<>> THEN <<>> ELSE Frags[Head(parts)] \o Concat(Tail(parts))

MapTexts ==
    UNION { { Concat(f) : f \in [1..k -> 1..Len(Frags)] } : k \in 0..MaxFrags }

MapFile == <<W, A_RS>>

MapInit ==
    /\ cwd = [ok |-> TRUE, path |-> <<W>>]
    /\ \E t \in MapTexts :
           fs = (<<W>> :> DirAttr(TRUE)) @@ (MapFile :> FileAttr(TRUE, t))
    /\ Idle

MapNext ==
    \/ Start
    \/ \E e \in DOMAIN fs : VisitDir(e)
    \/ \E e \in DOMAIN fs : VisitScan(e)
    \/ ReportClean
    \/ ReportViolations

MapSpec == MapInit /\ [][MapNext]_vars

-----------------------------------------------------------------------------
(* Vocabulary of the properties, stated on the tree itself *)

Range(seq) == { seq[i] : i \in 1..Len(seq) }

FilesOf(vs) == { vs[i].file : i \in 1..Len(vs) }

IsPrefix(q, p) == Len(q) <= Len(p) /\ SubSeq(p, 1, Len(q)) = q

PrunedNames == { TARGET, DOT_GIT, NODE_MODULES }

\* The path has a string form and that string contains src/utils/logging.
ExemptByString(p) == ToStr(p).some /\ Contains(ToStr(p).s, SEGMENT)

\* Proper ancestors of p in the tree, the scan root included.
Ancestors(p) == { q \in DOMAIN fs : IsPrefix(q, p) /\ q # p }

\* p lies beneath a subdirectory of the scan root that has a pruned name.
BeneathPrunedSubdir(p) ==
    \E q \in Ancestors(p) : q # cwd.path /\ FileName(q) \in PrunedNames

\* p lies beneath a directory with a pruned name, the scan root counting too.
BeneathPruned(p) == \E q \in Ancestors(p) : FileName(q) \in PrunedNames

BeneathUnlistable(p) == \E q \in Ancestors(p) : ~fs[q].ok

RegularRsFile(p) == fs[p].kind = "file" /\ HasRsExtension(p)

\* The regular *.rs files the traversal can get to.
Reachable(p) == RegularRsFile(p) /\ ~BeneathPruned(p) /\ ~BeneathUnlistable(p)

\* p is still to be yielded: it, or a directory above it, waits on the stack.
Pending(p) ==
    \E i \in 1..Len(stack) : \E q \in stack[i] : IsPrefix(q, p)

Encountered(p) == pc # "start" /\ Reachable(p) /\ ~Pending(p)

HasMatch(p) == fs[p].ok /\ FindIter(fs[p].text, 0) # <<>>

Completed == pc \in {"done", "panicked"}

RECURSIVE SumCounts(_, _)
SumCounts(m, keys) ==
    IF keys = {} THEN 0
    ELSE LET k == CHOOSE x \in keys : TRUE
         IN  m[k] + SumCounts(m, keys \ {k})

OfKind(lines, kind) ==
    LET Test(l) == l.kind = kind IN SelectSeq(lines, Test)

ViolationsOfFile(vs, file) ==
    LET Test(v) == v.file = file IN SelectSeq(vs, Test)

\* Lines of a text: the pieces between its newlines.
RECURSIVE SplitLines(_)
SplitLines(text) ==
    LET p == FindNewline(text)
    IN  IF p = -1 THEN << text >>
        ELSE << Slice(text, 0, p) >> \o SplitLines(Slice(text, p + 1, Len(text)))

RECURSIVE LineOffset(_, _)
LineOffset(lines, n) ==
    IF n = 1 THEN 0 ELSE LineOffset(lines, n - 1) + Len(lines[n - 1]) + 1

-----------------------------------------------------------------------------
(* C1 *)

\* C1: no Violation in the result list has a path whose string contains
\* src/utils/logging, and no such file is ever read.
C1_Exemption ==
    /\ \A i \in 1..Len(violations) : ~ExemptByString(violations[i].file)
    /\ \A i \in 1..Len(reads) : ~ExemptByString(reads[i])

\* A file with matches in the directory src/utils/logging was met and the scan
\* finished clean.
C1_Witness ==
    /\ pc = "done"
    /\ violations = <<>>
    /\ \E i \in 1..Len(visited) :
           /\ ExemptByString(visited[i]) /\ HasMatch(visited[i])
           /\ FileName(visited[i]) = M_RS

(* C2 *)

HasOffence ==
    \E p \in DOMAIN fs : Reachable(p) /\ ~ExemptByString(p) /\ HasMatch(p)

\* C2: a scan that completes exits with 1 when a match exists in a non-exempt
\* candidate file and with 0 otherwise; it produces no other status.
C2_ExitStatus ==
    Completed => status = (IF HasOffence THEN 1 ELSE 0)

\* Status 1 with matches both in an exempt file and in another file.
C2_Witness ==
    /\ pc = "done"
    /\ status = 1
    /\ \E p \in DOMAIN fs : Reachable(p) /\ ExemptByString(p) /\ HasMatch(p)

(* C3 *)

\* C3: once a read has failed the run is over: the failed read is the last
\* read, nothing of the report is printed, only the error message.
C3_FailFast ==
    (\E i \in 1..Len(reads) : ~fs[reads[i]].ok) =>
        /\ pc = "failed"
        /\ \A i \in 1..Len(reads) : ~fs[reads[i]].ok <=> i = Len(reads)
        /\ visited[Len(visited)] = reads[Len(reads)]
        /\ FilesOf(violations) \subseteq Range(reads)
        /\ out = << Line("stderr", "fatal", reads[Len(reads)], 0, 0, <<>>) >>
        /\ total_violations = 0 /\ per_file_count = <<>>

\* The read fails after violations were collected and before other entries
\* were visited.
C3_Witness ==
    /\ pc = "failed"
    /\ violations # <<>>
    /\ stack # <<>>
    /\ \A i \in 1..Len(out) : out[i].stream = "stderr"

(* C4 *)

RootUnlistable == cwd.ok /\ ~fs[cwd.path].ok

\* C4: a run that cannot complete, or whose root is inaccessible, ends with a
\* status other than 0 and 1.
C4_Claimed ==
    (pc = "failed" \/ (RootUnlistable /\ status # Running)) => status \notin {0, 1}

(* C5 *)

\* C5: total_violations is the sum of the per-file counts, every count is at
\* least 1, and the map has one key per distinct file of the list, which is
\* the file count of the error summary.
C5_CountConsistency ==
    Completed =>
        /\ total_violations = Len(violations)
        /\ total_violations = SumCounts(per_file_count, DOMAIN per_file_count)
        /\ \A f \in DOMAIN per_file_count : per_file_count[f] >= 1
        /\ DOMAIN per_file_count = FilesOf(violations)
        /\ \A f \in DOMAIN per_file_count :
               per_file_count[f] = Len(ViolationsOfFile(violations, f))
        /\ pc = "done" /\ violations # <<>> =>
               /\ out[Len(out)].kind = "error_summary"
               /\ out[Len(out)].n = Len(violations)
               /\ out[Len(out)].files = Cardinality(FilesOf(violations))

\* Two files, one with one violation and one with three.
C5_Witness ==
    /\ pc = "done"
    /\ \E f, g \in DOMAIN per_file_count :
           per_file_count[f] = 1 /\ per_file_count[g] = 3
    /\ total_violations = 4

(* C8 *)

\* C8: files_scanned is the number of candidate files met so far, exempt ones
\* included, and is never less than the number of files with violations.
C8_FilesScanned ==
    /\ files_scanned =
           Cardinality({ p \in DOMAIN fs : RegularRsFile(p) /\ Encountered(p) })
    /\ files_scanned = Len(visited)
    /\ files_scanned >= Cardinality(FilesOf(violations))

\* Before the report: an exempt file and a file with violations were counted.
C8_Witness ==
    /\ pc = "walk"
    /\ violations # <<>>
    /\ \E i \in 1..Len(visited) : ExemptByString(visited[i])
    /\ files_scanned > Cardinality(FilesOf(violations))

(* C9 *)

Seen == Range(visited) \cup Range(reads) \cup FilesOf(violations)

\* C9 as claimed: nothing beneath a pruned subdirectory is seen, and a scan
\* that completes has visited every other regular *.rs file of the tree.
C9_Claimed ==
    /\ \A p \in Seen : ~BeneathPrunedSubdir(p)
    /\ pc = "done" =>
           \A p \in DOMAIN fs :
               RegularRsFile(p) /\ ~BeneathPrunedSubdir(p) => p \in Range(visited)

\* C9 amended: nothing beneath a directory named target, .git or node_modules
\* (the scan root included) is seen, and a scan that completes has visited
\* exactly the regular *.rs files that are beneath no such directory and
\* beneath no directory whose listing failed.
C9_Pruning ==
    /\ \A p \in Seen : ~BeneathPruned(p)
    /\ pc = "done" =>
           \A p \in DOMAIN fs :
               (RegularRsFile(p) /\ ~BeneathPruned(p) /\ ~BeneathUnlistable(p))
                   <=> p \in Range(visited)

\* A completed scan that left out a file of a pruned directory and visited a
\* file of another subdirectory.
C9_Witness ==
    /\ pc = "done"
    /\ \E p \in DOMAIN fs :
           RegularRsFile(p) /\ BeneathPrunedSubdir(p) /\ FileName(Parent(p)) = DOT_GIT
    /\ \E p \in Range(visited) : Len(p) > Len(cwd.path) + 1

(* C10 *)

FileOrder == [ i \in 1..Len(OfKind(out, "file")) |-> OfKind(out, "file")[i].file ]

RowOrder ==
    [ i \in 1..Len(OfKind(out, "summary_row")) |-> OfKind(out, "summary_row")[i].file ]

StrictlyAscending(paths) ==
    \A i \in 1..(Len(paths) - 1) : PathLess(paths[i], paths[i + 1])

\* The detail lines that follow the header of file up to the next header.
SectionOf(file) ==
    LET hs == { i \in 1..Len(out) : out[i].kind = "file" /\ out[i].file = file }
        h == CHOOSE i \in hs : TRUE
        later == { j \in (h + 1)..Len(out) : out[j].kind = "file" }
        stop == IF later = {} THEN Len(out) + 1
                ELSE CHOOSE j \in later : \A k \in later : j <= k
    IN  SubSeq(out, h + 1, stop - 1)

Rendered(v) ==
    Line("stdout", "detail", v.file, 0, v.line_no,
         << Slice(v.line_text, 0, v.col_start),
            Slice(v.line_text, v.col_start, v.col_end),
            Slice(v.line_text, v.col_end, Len(v.line_text)) >>)

\* v comes before w in the text of their file: on an earlier line, or on the
\* same line and to the left.
Precedes(v, w) ==
    \/ v.line_no < w.line_no
    \/ v.line_no = w.line_no /\ v.col_end <= w.col_start

\* C10: the table and the detail section list the files in ascending path
\* order, each file's violations top to bottom and, on one line, left to
\* right, every violation once, and the count printed under a file is the
\* number of its detail lines.
C10_ReportOrder ==
    pc = "done" /\ violations # <<>> =>
        /\ StrictlyAscending(FileOrder)
        /\ Range(FileOrder) = FilesOf(violations)
        /\ RowOrder = FileOrder
        /\ Len(OfKind(out, "detail")) = Len(violations)
        /\ \A f \in FilesOf(violations) :
               LET sec == SectionOf(f)
                   vs == ViolationsOfFile(violations, f)
               IN  /\ OfKind(sec, "detail") = [ i \in 1..Len(vs) |-> Rendered(vs[i]) ]
                   /\ sec[1].kind = "file_count"
                   /\ sec[1].n = Len(OfKind(sec, "detail"))
                   /\ \A i \in 1..Len(vs) - 1 : Precedes(vs[i], vs[i + 1])
                   /\ \A i \in 1..Len(vs) - 1 :
                          LET d == OfKind(sec, "detail")
                          IN  \/ d[i].line_no < d[i + 1].line_no
                              \/ /\ d[i].line_no = d[i + 1].line_no
                                 /\ Len(d[i].text[1]) < Len(d[i + 1].text[1])

\* The traversal met the files in another order than the report lists them,
\* and one file has two violations on its line 1 and a third on line 2.
C10_Witness ==
    /\ pc = "done"
    /\ Len(FileOrder) >= 2
    /\ FirstSeenOrder(violations, {}) # FileOrder
    /\ \E f \in DOMAIN per_file_count :
           LET vs == ViolationsOfFile(violations, f)
           IN  /\ Len(vs) = 3
               /\ vs[1].line_no = 1 /\ vs[2].line_no = 1 /\ vs[3].line_no = 2
               /\ vs[1].col_start < vs[2].col_start

-----------------------------------------------------------------------------
(* C6 and C7, for one file with arbitrary contents (MapSpec) *)

TheText == fs[MapFile].text

Scanned == MapFile \in Range(reads)

\* C6: every Violation has column_start <= column_end <= len(line_text), so
\* the slicing of highlight_match never panics.
C6_ColumnBounds ==
    /\ \A i \in 1..Len(violations) :
           /\ 0 <= violations[i].col_start
           /\ violations[i].col_start <= violations[i].col_end
           /\ violations[i].col_end <= Len(violations[i].line_text)
    /\ pc # "panicked"
    /\ status # ExitPanic

\* Matches on the first line and on a last line that has no trailing newline,
\* reported without a panic.
C6_Witness ==
    /\ pc = "done"
    /\ Len(violations) = 2
    /\ violations[1].line_no = 1 /\ violations[1].col_start = 0
    /\ violations[2].line_no = Len(SplitLines(TheText))
    /\ violations[2].line_no > 1
    /\ violations[2].col_end = Len(violations[2].line_text)
    /\ TheText[Len(TheText)] # NL

Position(v) == [col_start |-> v.col_start, col_end |-> v.col_end,
                line_text |-> v.line_text]

\* C7: the k-th Violation describes the k-th match [s, e): line_number is one
\* more than the number of newlines before s, line_text is that line of the
\* file and holds no newline, the columns are s and e counted from the start
\* of the line; and the line alone, as a file of its own, gives the same
\* line_text and columns.
C7_PositionMapping ==
    Scanned =>
        LET lines == SplitLines(TheText)
            ms == FindIter(TheText, 0)
        IN  /\ Len(violations) = Len(ms)
            /\ \A k \in 1..Len(violations) :
                   LET v == violations[k]
                       s == ms[k].start
                       e == ms[k].end
                   IN  /\ v.file = MapFile
                       /\ v.line_no = 1 + CountNewlines(Slice(TheText, 0, s))
                       /\ v.line_no \in 1..Len(lines)
                       /\ v.line_text = lines[v.line_no]
                       /\ \A i \in 1..Len(v.line_text) : v.line_text[i] # NL
                       /\ v.col_start = s - LineOffset(lines, v.line_no)
                       /\ v.col_end = e - LineOffset(lines, v.line_no)
                       /\ Slice(v.line_text, v.col_start, v.col_end) = Slice(TheText, s, e)
            /\ \A n \in 1..Len(lines) :
                   LET here(v) == v.line_no = n
                       vs == SelectSeq(violations, here)
                       alone == ScanText(MapFile, lines[n])
                   IN  /\ Len(vs) = Len(alone)
                       /\ \A i \in 1..Len(vs) : Position(vs[i]) = Position(alone[i])

\* Three lines, the pattern on line 2 only, between a non-empty line 1 and a
\* non-empty line 3.
C7_Witness ==
    /\ pc = "done"
    /\ Len(SplitLines(TheText)) = 3
    /\ SplitLines(TheText)[1] # <<>>
    /\ SplitLines(TheText)[3] # <<>>
    /\ Len(violations) = 1
    /\ violations[1].line_no = 2
    /\ violations[1].line_text = SplitLines(TheText)[2]

====
